---- MODULE Spec2Model ----
(***************************************************************************)
(* Model of walker-yt's "Split & Pipe" pipeline: process_audio, its        *)
(* background processing_worker thread, the wait loop that gates the       *)
(* return of process_audio, and the part of main that calls it and then    *)
(* launches the player.                                                    *)
(*                                                                         *)
(* One tool process is one value p of Procs.  The work directory of the    *)
(* track (live_audio.raw, out_chunks/, input.m4a) and the process table    *)
(* are shared by all tool processes.                                       *)
(*                                                                         *)
(* The buffer file is a sequence of blocks of BlockBytes bytes.  A block   *)
(* is <<w, seg, k, src>>: the k-th block of segment seg's decoded PCM,     *)
(* appended by the worker of process w, decoded from a separated wav that  *)
(* was written by the demucs of process src (src = 0: a wav left in        *)
(* out_chunks/ by an earlier, completed run; w = 0: a block of the buffer  *)
(* such a run left).                                                       *)
(***************************************************************************)
EXTENDS Integers, Sequences, FiniteSets, TLC

\* ---- bounds of the model ------------------------------------------------
MaxSegments == 3
MaxBlocks == 2
BlockBytes == 50000
Oversleep == 120
TwoSegments == 2
TwoBlocks == 1

\* ---- constants of the program -------------------------------------------
THRESHOLD == 100000
TIMEOUT == 120
POLL_INTERVAL == 1
READY_PROGRESS == 10
SAMPLE_RATE == 44100
CHANNELS == 2
SAMPLE_BYTES == 2

Procs == {1, 2}
Segs == 0 .. (MaxSegments - 1)
NoFile == [src |-> -1, len |-> 0]
NoReader == [st |-> "none", pos |-> 0]
Punctual == {0}
Loaded == {Oversleep}

VARIABLES
    callerPc,    \* [Procs -> position of the main thread in main/process_audio]
    elapsed,     \* [Procs -> time.time() - start_time, in seconds, in the wait loop]
    nseg,        \* [Procs -> len(sorted_chunks)]
    thread,      \* [Procs -> state of worker_thread]
    wpc,         \* [Procs -> position of processing_worker, or of the child it left]
    idx,         \* [Procs -> loop index i of processing_worker]
    kdec,        \* [Procs -> blocks the running decoder has written so far]
    linked,      \* [Procs -> the decoder's stdout is the file now named live_audio.raw]
    percent,     \* [Procs -> last progress value sent under the run's nid, -1: none]
    errors,      \* [Procs -> number of "Error" notifications sent by main]
    bufExists,   \* os.path.exists(playback_file)
    bufData,     \* content of playback_file, a sequence of blocks
    wav,         \* [Segs -> separated wav in out_chunks/mdx_extra/chunk_i/, or NoFile]
    audioExists, \* os.path.exists(audio_path)
    players,     \* tool processes whose mpv is running
    foreign,     \* a process not started by the tool whose command line holds "demucs"
    terminated,  \* tool processes whose running demucs a pkill has ended
    reader       \* [Procs -> mpv's read handle on live_audio.raw: state, offset]

vars == <<callerPc, elapsed, nseg, thread, wpc, idx, kdec, linked, percent, errors,
          bufExists, bufData, wav, audioExists, players, foreign, terminated, reader>>

callerVars == <<callerPc, elapsed, nseg, errors>>
workerVars == <<thread, wpc, idx, kdec, linked>>
fsVars == <<bufExists, bufData, wav, audioExists>>

\* ---- pure helpers -------------------------------------------------------

\* os.path.getsize(playback_file)
BufBytes == Len(bufData) * BlockBytes

\* what ffmpeg -f s16le writes for the separated wav w of segment i, run by worker p
DecodeOut(p, i, w) == [k \in 1 .. w.len |-> <<p, i, k, w.src>>]

\* the buffer a completed run with n segments, all separated, leaves behind
RECURSIVE PriorBuffer(_)
PriorBuffer(n) ==
    IF n = 0 THEN <<>>
    ELSE PriorBuffer(n - 1) \o DecodeOut(0, n - 1, [src |-> 0, len |-> 1])

\* open(playback_file, "ab"): the content the new handle appends to
OpenTruncate(exists, data) == <<>>
OpenAppend(exists, data) == IF exists THEN data ELSE <<>>

\* the condition of the wait loop
NotReadyExistsOnly(exists, bytes) == ~exists
NotReadyDroppedZero(exists, bytes) == (~exists) \/ bytes < THRESHOLD \div 10
NotReady(exists, bytes) == (~exists) \/ bytes < THRESHOLD

\* one iteration of the wait loop: "ready" leaves the loop, "died" and "timeout"
\* are the two raises, "sleep" is time.sleep(1)
GateTimeoutFirst(exists, bytes, alive, el) ==
    IF ~NotReady(exists, bytes) THEN "ready"
    ELSE IF el > TIMEOUT THEN "timeout"
    ELSE IF (~alive) /\ NotReady(exists, bytes) THEN "died"
    ELSE "sleep"
GateTimeoutEarly(exists, bytes, alive, el) ==
    IF ~NotReady(exists, bytes) THEN "ready"
    ELSE IF (~alive) /\ NotReady(exists, bytes) THEN "died"
    ELSE IF el >= TIMEOUT THEN "timeout"
    ELSE "sleep"
GateStep(exists, bytes, alive, el) ==
    IF ~NotReady(exists, bytes) THEN "ready"
    ELSE IF (~alive) /\ NotReady(exists, bytes) THEN "died"
    ELSE IF el > TIMEOUT THEN "timeout"
    ELSE "sleep"

\* sorted_chunks[i] of a run with total chunks: the listing is sorted and the
\* names are chunk_000.m4a, chunk_001.m4a, ..., so it is segment i
ChunkReversed(i, total) == total - 1 - i
Chunk(i, total) == i

\* int(((i + 1) / total) * 100): a float quotient, scaled and truncated. For
\* every total below 50 this is the integer quotient written here; the first
\* pair on which the float rounding makes it one less is i = 28, total = 50.
Percent(i, total) == ((i + 1) * 100) \div total

\* what becomes of the worker's position once its child process has ended
AfterChild(p, next) == IF thread[p] = "running" THEN next ELSE "halt"

\* the segment the worker of p is on
Current(p) == Chunk(idx[p], nseg[p])

\* ---- initial states -----------------------------------------------------

\* The work directory as a completed earlier run with prior segments left it
\* (prior = 0: no earlier run); no tool process has reached process_audio yet.
InitWith(prior) ==
    /\ callerPc = [p \in Procs |-> "idle"]
    /\ elapsed = [p \in Procs |-> 0]
    /\ nseg = [p \in Procs |-> 0]
    /\ thread = [p \in Procs |-> "unstarted"]
    /\ wpc = [p \in Procs |-> "halt"]
    /\ idx = [p \in Procs |-> 0]
    /\ kdec = [p \in Procs |-> 0]
    /\ linked = [p \in Procs |-> FALSE]
    /\ percent = [p \in Procs |-> -1]
    /\ errors = [p \in Procs |-> 0]
    /\ bufExists = (prior > 0)
    /\ bufData = PriorBuffer(prior)
    /\ wav = [i \in Segs |-> IF i < prior THEN [src |-> 0, len |-> 1] ELSE NoFile]
    /\ audioExists = (prior > 0)
    /\ players = {}
    /\ foreign = TRUE
    /\ terminated = {}
    /\ reader = [p \in Procs |-> NoReader]

Init == \E prior \in 0 .. MaxSegments : InitWith(prior)

\* ---- main thread --------------------------------------------------------

\* main reaches the "Keep Vocals" / "Keep Music" branch and calls process_audio
\* (the tool processes are numbered in the order they get there)
StartRun(p) ==
    /\ callerPc[p] = "idle"
    /\ \A q \in Procs : q < p => callerPc[q] # "idle"
    /\ callerPc' = [callerPc EXCEPT ![p] = "cleanup"]
    /\ UNCHANGED <<elapsed, nseg, errors, workerVars, fsVars, percent, players, foreign, terminated, reader>>

\* pkill -f demucs: every process whose command line holds "demucs" is
\* terminated; a worker blocked in subprocess.run on one sees it return
Cleanup(p) ==
    /\ callerPc[p] = "cleanup"
    /\ callerPc' = [callerPc EXCEPT ![p] = "remove"]
    /\ wpc' = [q \in Procs |-> IF wpc[q] = "sep" THEN AfterChild(q, "find") ELSE wpc[q]]
    /\ foreign' = FALSE
    /\ terminated' = terminated \cup {q \in Procs : wpc[q] = "sep"}
    /\ UNCHANGED <<elapsed, nseg, errors, thread, idx, kdec, linked, fsVars, percent, players,
                   reader>>

\* if os.path.exists(playback_file): os.remove(playback_file); then the
\* first notify, which carries no progress
RemoveBuffer(p) ==
    /\ callerPc[p] = "remove"
    /\ callerPc' = [callerPc EXCEPT ![p] = "download"]
    /\ bufExists' = FALSE
    /\ bufData' = <<>>
    /\ linked' = [q \in Procs |-> FALSE]
    /\ UNCHANGED <<elapsed, nseg, errors, thread, wpc, idx, kdec, wav, audioExists,
                   percent, players, foreign, terminated, reader>>

\* yt-dlp with check=True, skipped when input.m4a is there
Download(p, ok) ==
    /\ callerPc[p] = "download"
    /\ IF audioExists
       THEN /\ callerPc' = [callerPc EXCEPT ![p] = "split"]
            /\ UNCHANGED audioExists
       ELSE IF ok
       THEN /\ callerPc' = [callerPc EXCEPT ![p] = "split"]
            /\ audioExists' = TRUE
       ELSE /\ callerPc' = [callerPc EXCEPT ![p] = "fatal"]
            /\ UNCHANGED audioExists
    /\ UNCHANGED <<elapsed, nseg, errors, workerVars, bufExists, bufData, wav,
                   percent, players, foreign, terminated, reader>>

\* Split without check=True: a failed ffmpeg is not noticed and the run goes on
SplitUnchecked(p, ok, n) ==
    /\ callerPc[p] = "split"
    /\ callerPc' = [callerPc EXCEPT ![p] = "spawn"]
    /\ nseg' = [nseg EXCEPT ![p] = IF ok THEN n ELSE 0]
    /\ UNCHANGED <<elapsed, errors, workerVars, fsVars, percent, players, foreign, terminated, reader>>

\* clear chunks/, ffmpeg -f segment with check=True, sorted listing
Split(p, ok, n) ==
    /\ callerPc[p] = "split"
    /\ IF ok
       THEN /\ callerPc' = [callerPc EXCEPT ![p] = "spawn"]
            /\ nseg' = [nseg EXCEPT ![p] = n]
       ELSE /\ callerPc' = [callerPc EXCEPT ![p] = "fatal"]
            /\ UNCHANGED nseg
    /\ UNCHANGED <<elapsed, errors, workerVars, fsVars, percent, players, foreign, terminated, reader>>

\* notify(... progress=0), worker_thread.start(), start_time = time.time()
SpawnWorker(p) ==
    /\ callerPc[p] = "spawn"
    /\ callerPc' = [callerPc EXCEPT ![p] = "gate"]
    /\ percent' = [percent EXCEPT ![p] = 0]
    /\ thread' = [thread EXCEPT ![p] = "running"]
    /\ wpc' = [wpc EXCEPT ![p] = "loop"]
    /\ idx' = [idx EXCEPT ![p] = 0]
    /\ elapsed' = [elapsed EXCEPT ![p] = 0]
    /\ UNCHANGED <<nseg, errors, kdec, linked, fsVars, players, foreign, terminated, reader>>

\* one iteration of the wait loop, its reads of the file, of is_alive and
\* of the clock taken at one instant; time.sleep(1) returns late seconds late
\* (the time the other statements take is not counted)
GatePoll(p, late) ==
    /\ callerPc[p] = "gate"
    /\ LET out == GateStep(bufExists, BufBytes, thread[p] = "running", elapsed[p])
       IN IF out = "sleep"
          THEN /\ elapsed' = [elapsed EXCEPT ![p] = @ + POLL_INTERVAL + late]
               /\ UNCHANGED callerPc
          ELSE /\ callerPc' = [callerPc EXCEPT ![p] = out]
               /\ UNCHANGED elapsed
    /\ UNCHANGED <<nseg, errors, workerVars, fsVars, percent, players, foreign, terminated, reader>>

\* notify("Ready! Opening Player...", progress=10); return playback_file
\* (start_time goes with the frame)
NotifyReady(p) ==
    /\ callerPc[p] = "ready"
    /\ callerPc' = [callerPc EXCEPT ![p] = "play"]
    /\ percent' = [percent EXCEPT ![p] = READY_PROGRESS]
    /\ elapsed' = [elapsed EXCEPT ![p] = 0]
    /\ UNCHANGED <<nseg, errors, workerVars, fsVars, players, foreign, terminated, reader>>

\* main: notify("Playing ..."), subprocess.Popen(mpv ... --audio-file=...)
Play(p) ==
    /\ callerPc[p] = "play"
    /\ callerPc' = [callerPc EXCEPT ![p] = "exit"]
    /\ players' = players \cup {p}
    /\ reader' = [reader EXCEPT ![p] = [st |-> "open", pos |-> 0]]
    /\ UNCHANGED <<elapsed, nseg, errors, workerVars, fsVars, percent, foreign, terminated>>

\* an error report that goes on to launch the player all the same
ReportThenPlay(p) ==
    /\ callerPc[p] \in {"fatal", "died", "timeout"}
    /\ callerPc' = [callerPc EXCEPT ![p] = "exit"]
    /\ errors' = [errors EXCEPT ![p] = @ + 1]
    /\ elapsed' = [elapsed EXCEPT ![p] = 0]
    /\ players' = players \cup {p}
    /\ UNCHANGED <<nseg, workerVars, fsVars, percent, foreign, terminated, reader>>

\* the raise leaves process_audio; main: except Exception as e:
\* notify("Error", ...)
Report(p) ==
    /\ callerPc[p] \in {"fatal", "died", "timeout"}
    /\ callerPc' = [callerPc EXCEPT ![p] = "exit"]
    /\ errors' = [errors EXCEPT ![p] = @ + 1]
    /\ elapsed' = [elapsed EXCEPT ![p] = 0]
    /\ UNCHANGED <<nseg, workerVars, fsVars, percent, players, foreign, terminated, reader>>

\* main returns and the interpreter exits: the daemon worker thread stops
\* where it is; a child process it was waiting for runs on
Exit(p) ==
    /\ callerPc[p] = "exit"
    /\ callerPc' = [callerPc EXCEPT ![p] = "exited"]
    /\ thread' = [thread EXCEPT ![p] = IF @ = "running" THEN "killed" ELSE @]
    /\ wpc' = [wpc EXCEPT ![p] = IF @ \in {"sep", "decode"} THEN @ ELSE "halt"]
    /\ UNCHANGED <<elapsed, nseg, errors, idx, kdec, linked, fsVars, percent,
                   players, foreign, terminated, reader>>

\* ---- processing_worker --------------------------------------------------

\* subprocess.run(cmd) starts demucs on chunk i, or raises (ok = FALSE) and
\* ends the thread
LaunchDemucs(p, ok) ==
    /\ thread[p] = "running"
    /\ wpc[p] = "loop"
    /\ IF ok
       THEN /\ wpc' = [wpc EXCEPT ![p] = "sep"]
            /\ UNCHANGED thread
       ELSE /\ wpc' = [wpc EXCEPT ![p] = "halt"]
            /\ thread' = [thread EXCEPT ![p] = "crashed"]
    /\ UNCHANGED <<callerVars, idx, kdec, linked, fsVars, percent, players, foreign, terminated, reader>>

\* demucs ends by itself: len = 0, it wrote nothing; else it wrote the
\* stems of chunk i, len blocks long once decoded
DemucsExit(p, len) ==
    /\ wpc[p] = "sep"
    /\ wpc' = [wpc EXCEPT ![p] = AfterChild(p, "find")]
    /\ wav' = IF len = 0 THEN wav
              ELSE [wav EXCEPT ![Current(p)] = [src |-> p, len |-> len]]
    /\ UNCHANGED <<callerVars, thread, idx, kdec, linked, bufExists, bufData,
                   audioExists, percent, players, foreign, terminated, reader>>

\* if os.path.exists(separated_wav): open(playback_file, "ab") and start
\* the decoder on it
FindOutput(p) ==
    /\ thread[p] = "running"
    /\ wpc[p] = "find"
    /\ IF wav[Current(p)] # NoFile
       THEN /\ wpc' = [wpc EXCEPT ![p] = "decode"]
            /\ bufData' = OpenAppend(bufExists, bufData)
            /\ bufExists' = TRUE
            /\ linked' = [q \in Procs |-> IF q = p THEN TRUE ELSE linked[q] /\ bufExists]
            /\ kdec' = [kdec EXCEPT ![p] = 0]
       ELSE /\ wpc' = [wpc EXCEPT ![p] = "notify"]
            /\ UNCHANGED <<bufData, bufExists, linked, kdec>>
    /\ UNCHANGED <<callerVars, thread, idx, wav, audioExists, percent, players, foreign, terminated, reader>>

\* the decoder writes its next block to its stdout; after the last one it
\* ends and the with-block closes the file
DecodeWrite(p) ==
    /\ wpc[p] = "decode"
    /\ LET out == DecodeOut(p, Current(p), wav[Current(p)])
           k == kdec[p] + 1
       IN /\ bufData' = IF linked[p] /\ k <= Len(out) THEN Append(bufData, out[k])
                        ELSE bufData
          /\ IF k >= Len(out)
             THEN /\ wpc' = [wpc EXCEPT ![p] = AfterChild(p, "notify")]
                  /\ kdec' = [kdec EXCEPT ![p] = 0]
                  /\ linked' = [linked EXCEPT ![p] = FALSE]
             ELSE /\ kdec' = [kdec EXCEPT ![p] = k]
                  /\ UNCHANGED <<wpc, linked>>
    /\ UNCHANGED <<callerVars, thread, idx, bufExists, wav, audioExists, percent,
                   players, foreign, terminated, reader>>

\* notify(... progress=percent ...), then the next chunk or the end of the
\* thread
NotifyProgress(p) ==
    /\ thread[p] = "running"
    /\ wpc[p] = "notify"
    /\ percent' = [percent EXCEPT ![p] = Percent(idx[p], nseg[p])]
    /\ idx' = [idx EXCEPT ![p] = @ + 1]
    /\ IF idx[p] + 1 < nseg[p]
       THEN /\ wpc' = [wpc EXCEPT ![p] = "loop"]
            /\ UNCHANGED thread
       ELSE /\ wpc' = [wpc EXCEPT ![p] = "halt"]
            /\ thread' = [thread EXCEPT ![p] = "finished"]
    /\ UNCHANGED <<callerVars, kdec, linked, fsVars, players, foreign, terminated, reader>>

\* ---- the player and the operating system --------------------------------

\* mpv reads the path it was given with --audio-file as an ordinary file: a
\* read below the end of the file returns the bytes up to the end, a read at
\* the end returns nothing, which is the end of the audio track
ConsumerRead(p) ==
    /\ p \in players
    /\ reader[p].st = "open"
    /\ reader' = [reader EXCEPT ![p] =
                      IF @.pos < Len(bufData)
                      THEN [st |-> "open", pos |-> Len(bufData)]
                      ELSE [st |-> "eos", pos |-> @.pos]]
    /\ UNCHANGED <<callerVars, workerVars, fsVars, percent, players, foreign, terminated>>

\* SIGTERM or SIGINT reaches the tool process: no handler is installed, so the
\* process ends at once (for SIGINT through an uncaught KeyboardInterrupt,
\* which except Exception does not catch); the daemon worker thread ends with
\* it, a child process it was waiting for runs on
Interrupt(p) ==
    /\ callerPc[p] \notin {"idle", "exited", "signalled"}
    /\ callerPc' = [callerPc EXCEPT ![p] = "signalled"]
    /\ elapsed' = [elapsed EXCEPT ![p] = 0]
    /\ thread' = [thread EXCEPT ![p] = IF @ = "running" THEN "killed" ELSE @]
    /\ wpc' = [wpc EXCEPT ![p] = IF @ \in {"sep", "decode"} THEN @ ELSE "halt"]
    /\ UNCHANGED <<nseg, errors, idx, kdec, linked, fsVars, percent, players, foreign,
                   terminated, reader>>

\* ---- specifications -----------------------------------------------------

Step(p, late, counts, lens) ==
    \/ StartRun(p)
    \/ Cleanup(p)
    \/ RemoveBuffer(p)
    \/ \E ok \in BOOLEAN : Download(p, ok)
    \/ \E ok \in BOOLEAN, n \in counts : Split(p, ok, n)
    \/ SpawnWorker(p)
    \/ GatePoll(p, late)
    \/ NotifyReady(p)
    \/ Play(p)
    \/ Report(p)
    \/ Exit(p)
    \/ \E ok \in BOOLEAN : LaunchDemucs(p, ok)
    \/ \E len \in lens : DemucsExit(p, len)
    \/ FindOutput(p)
    \/ DecodeWrite(p)
    \/ NotifyProgress(p)

\* one tool process, its sleeps punctual
Next == \E late \in Punctual : Step(1, late, 1 .. MaxSegments, 0 .. MaxBlocks)
Spec == Init /\ [][Next]_vars

\* two tool processes on the same track in a work directory no run has used,
\* on a loaded machine where every time.sleep(1) returns Oversleep seconds late
InitTwo == InitWith(0)
NextTwo == \E p \in Procs, late \in Loaded : Step(p, late, 1 .. TwoSegments, 0 .. TwoBlocks)
SpecTwo == InitTwo /\ [][NextTwo]_vars

\* the same, with the main thread scheduled: the wait loop keeps iterating
FairSpec == Spec /\ WF_vars(\E late \in Punctual : GatePoll(1, late))

\* one tool process in a fresh work directory, and the player it launched
\* reading the buffer
NextStream ==
    \/ \E late \in Punctual : Step(1, late, 1 .. MaxSegments, 0 .. MaxBlocks)
    \/ ConsumerRead(1)
SpecStream == InitTwo /\ [][NextStream]_vars

\* one tool process in a fresh work directory, and a termination signal that
\* may reach it at any point
NextSignal ==
    \/ \E late \in Punctual : Step(1, late, 1 .. MaxSegments, 0 .. MaxBlocks)
    \/ Interrupt(1)
SpecSignal == InitTwo /\ [][NextSignal]_vars

\* ---- vocabulary of the properties ---------------------------------------

IsPrefix(s, t) == Len(s) <= Len(t) /\ SubSeq(t, 1, Len(s)) = s

Min(a, b) == IF a <= b THEN a ELSE b

\* the decoded PCM of segments 0 .. n-1 in ascending index order, as appended
\* by the worker of p from the separated wavs now in out_chunks/
RECURSIVE Concat(_, _)
Concat(p, n) ==
    IF n = 0 THEN <<>>
    ELSE Concat(p, n - 1) \o DecodeOut(p, n - 1, wav[n - 1])

\* the run of p has passed the os.remove of the buffer an earlier run left
BufferReset(p) == callerPc[p] \notin {"idle", "cleanup", "remove"}

\* the main thread of p takes a step
CallerSteps(p) == callerPc'[p] # callerPc[p] \/ elapsed'[p] # elapsed[p]

\* fewer than THRESHOLD bytes are in the buffer (or there is no buffer)
Below == (~bufExists) \/ BufBytes < 100000

GateOutcomes == {"ready", "died", "timeout"}

\* ---- properties --------------------------------------------------------

C2_NeverShrinksFromStart ==
    [][(callerPc[1] # "idle" /\ thread[1] # "finished")
         => (IsPrefix(bufData, bufData') /\ (bufExists => bufExists'))]_vars

\* C2 amended: the same from the moment process_audio has removed the buffer
\* file an earlier run left (the os.remove at its start).
C2_NeverShrinksAfterReset ==
    [][BufferReset(1) => (IsPrefix(bufData, bufData') /\ (bufExists => bufExists'))]_vars

\* C2 witness: the worker is appending a later segment to a buffer that
\* already holds an earlier one
C2_Witness ==
    /\ BufferReset(1)
    /\ wpc[1] = "decode"
    /\ kdec[1] = 1
    /\ idx[1] >= 1
    /\ Len(bufData) >= 2

\* C3: the wait loop ends in success exactly when the size it observed is at
\* least the threshold, and then no later than the poll that follows the
\* timeout; whenever the buffer holds the threshold at a poll the loop ends
\* in success, not in a failure.
C3_GateIffThreshold ==
    [][(callerPc[1] = "gate" /\ CallerSteps(1)) =>
          /\ (callerPc'[1] = "ready") <=> ~Below
          /\ (callerPc'[1] \in {"died", "timeout"}) => Below
          /\ (callerPc'[1] = "ready") => elapsed[1] <= TIMEOUT + POLL_INTERVAL]_vars

\* C3 witness: the loop has just returned success on a buffer that holds
\* exactly the threshold, after having slept at least once
C3_Witness ==
    /\ callerPc[1] = "ready"
    /\ BufBytes = 100000
    /\ elapsed[1] >= 1

\* C4: when the worker thread has ended (its loop ran out of segments, or an
\* error ended it) and the buffer is below the threshold, the very next
\* iteration of the wait loop raises "Processing worker died prematurely",
\* whatever the elapsed time: it does not sleep again and it does not report
\* the timeout instead.
C4_DiedAtNextPoll ==
    [][(/\ callerPc[1] = "gate"
        /\ thread[1] \in {"finished", "crashed"}
        /\ Below
        /\ CallerSteps(1)) => callerPc'[1] = "died"]_vars

\* C4 witness: the worker ended on an error with nothing appended, the
\* budget of the loop was already used up, and the loop raised "died"
C4_Witness ==
    /\ callerPc[1] = "died"
    /\ thread[1] = "crashed"
    /\ ~bufExists
    /\ elapsed[1] > TIMEOUT

\* C5: the wait loop always ends, in one of success, "died" and "timeout";
\* it never iterates later than one poll interval after the 120 s budget;
\* with the worker alive and the buffer below the threshold, the first poll
\* after the budget raises the timeout, not "died", and it does so more than
\* 120 s and at most 120 s plus one poll interval after the loop started.
C5_GateEnds ==
    /\ (callerPc[1] = "gate") ~> (callerPc[1] \in GateOutcomes)
    /\ [][(callerPc[1] = "gate" /\ CallerSteps(1)) =>
            /\ elapsed'[1] <= TIMEOUT + POLL_INTERVAL
            /\ (elapsed[1] > TIMEOUT /\ thread[1] = "running" /\ Below)
                   => callerPc'[1] = "timeout"
            /\ callerPc'[1] = "timeout"
                   => /\ elapsed[1] > TIMEOUT
                      /\ elapsed[1] <= TIMEOUT + POLL_INTERVAL
                      /\ thread[1] = "running"]_vars

\* C5 witness: the loop has raised the timeout 121 s in, the worker alive
C5_Witness ==
    /\ callerPc[1] = "timeout"
    /\ elapsed[1] = TIMEOUT + POLL_INTERVAL
    /\ thread[1] = "running"
    /\ Below

\* bytes of one second of 44100 Hz, 2-channel, 16-bit audio
BytesPerSecond == SAMPLE_RATE * CHANNELS * SAMPLE_BYTES

\* C6 as stated: the wait loop has not returned success while fewer than
\* 500000 bytes (2.83 s of audio) are in the buffer.
C6_Ready500000 ==
    callerPc[1] = "ready" => (bufExists /\ BufBytes >= 500000)

\* C6 amended: the wait loop has not returned success while fewer than
\* 100000 bytes (0.566 s of audio at 176400 bytes per second) are in the
\* buffer.
C6_Ready100000 ==
    callerPc[1] = "ready" =>
        /\ bufExists
        /\ BufBytes >= 100000
        /\ BytesPerSecond = 176400
        /\ (BufBytes * 1000) \div BytesPerSecond >= 566

\* C6 witness: success on a buffer of exactly 100000 bytes
C6_Witness ==
    /\ callerPc[1] = "ready"
    /\ bufExists
    /\ BufBytes = 100000
    /\ (BufBytes * 1000) \div BytesPerSecond = 566

\* the worker loops that are running
ActiveWorkers == {p \in Procs : thread[p] = "running"}

\* C7: once the second run has completed the cleanup at the start of
\* process_audio, at most one worker loop is running and at most one player
\* is running, and the worker of the first run starts no further separation.
C7_OneWorkerOnePlayer ==
    [][(callerPc[2] \notin {"idle", "cleanup"}) =>
          /\ Cardinality(ActiveWorkers) <= 1
          /\ Cardinality(players) <= 1
          /\ ~(wpc[1] = "loop" /\ wpc'[1] = "sep")]_vars

\* C8: when the cleanup of the second run has ended the demucs the first
\* run's worker was waiting for, then from the removal of the buffer on the
\* second worker starts at segment 0 and every block in the buffer was
\* appended by the second run's worker.
C8_OnlyNewRunBytes ==
    (1 \in terminated /\ callerPc[2] \notin {"idle", "cleanup", "remove"}) =>
        /\ callerPc[2] \in {"download", "split", "spawn"} => idx[2] = 0
        /\ \A a \in 1 .. Len(bufData) : bufData[a][1] = 2

\* the buffer a first-time run leaves when its separations end as they did in
\* this run: only the wavs this run's demucs wrote count
RECURSIVE FirstTime(_, _)
FirstTime(p, n) ==
    IF n = 0 THEN <<>>
    ELSE FirstTime(p, n - 1) \o
         (IF wav[n - 1].src = p THEN DecodeOut(p, n - 1, wav[n - 1]) ELSE <<>>)

\* C9: a run in a work directory that holds an earlier run's artifacts ends
\* with the buffer a first-time run would have: a segment whose separation
\* wrote nothing in this run adds nothing.
C9_SameAsFirstTime ==
    thread[1] = "finished" => bufData = FirstTime(1, nseg[1])

\* C10: the worker decodes and appends for a segment only if this run's
\* separation of it wrote the output; otherwise it goes on to the next
\* segment, so that a finished three-segment run whose second separation
\* wrote nothing leaves the first and the third segment's blocks.
C10_SkipsFailedSegment ==
    /\ wpc[1] = "decode" => wav[Current(1)].src = 1
    /\ (thread[1] = "finished" /\ nseg[1] = 3 /\ wav[1].src # 1) =>
           bufData = DecodeOut(1, 0, wav[0]) \o DecodeOut(1, 2, wav[2])

\* C11: a failed download or split ends the run before a worker exists: a
\* worker is started only after both have succeeded; after a fatal setup the
\* main thread goes nowhere but to the error report and the exit, and as long
\* as no worker was started the run has separated nothing, appended nothing,
\* not entered the wait loop and launched no player.
C11_FatalSetupStartsNothing ==
    /\ [](thread[1] # "unstarted" => (audioExists /\ nseg[1] >= 1))
    /\ [](callerPc[1] = "fatal" => thread[1] = "unstarted")
    /\ [](thread[1] = "unstarted" =>
            /\ callerPc[1] \notin {"gate", "ready", "died", "timeout", "play"}
            /\ wpc[1] = "halt"
            /\ 1 \notin players
            /\ \A i \in Segs : wav[i].src # 1
            /\ \A a \in 1 .. Len(bufData) : bufData[a][1] # 1)
    /\ [][callerPc[1] = "fatal" => callerPc'[1] \in {"fatal", "exit"}]_vars

\* C11 witness: the download succeeded, the split failed, the failure was
\* reported and the process has ended without a worker or a buffer
C11_Witness ==
    /\ callerPc[1] = "exited"
    /\ errors[1] = 1
    /\ thread[1] = "unstarted"
    /\ audioExists
    /\ nseg[1] = 0
    /\ ~bufExists
    /\ players = {}

\* C12: the player never gets end-of-stream from the buffer while the worker
\* loop of the run is still running.
C12_NoEosWhileProducing == reader[1].st = "eos" => thread[1] # "running"

\* C13: once an interrupted tool process has ended, no demucs started by its
\* run is still running.
C13_NoOrphanAfterSignal == callerPc[1] = "signalled" => wpc[1] # "sep"

\* C14: the cleanup before a new run never terminates a process the tool did
\* not launch, even one whose command line resembles that of demucs.
C14_ForeignSurvives == foreign

\* C15: once the gate has passed and the player is launched, the worker is
\* not stopped because main has returned: it is never found killed after the
\* tool process has ended with its player running.
C15_WorkerOutlivesMain ==
    (callerPc[1] = "exited" /\ 1 \in players) => thread[1] # "killed"

\* the buffer holds bytes of a segment whose decoder is still writing
PartialAppend(p) == wpc[p] = "decode" /\ linked[p] /\ kdec[p] > 0

\* C16: the player is launched only from the state the gate's success leads
\* to, and that state is entered only by a poll that found the buffer at the
\* threshold; a run in FatalSetup, ProducerDied or Timeout has no player and
\* no report yet, its only step is the one error report, and a run that has
\* ended has either a player and no error report or one error report and no
\* player.
C16_PlayerOnlyAfterGate ==
    /\ [][players' # players =>
            (callerPc[1] = "play" /\ players' = players \cup {1})]_vars
    /\ [][(callerPc'[1] = "play" /\ callerPc[1] # "play") => callerPc[1] = "ready"]_vars
    /\ [][(callerPc'[1] = "ready" /\ callerPc[1] # "ready") =>
            (callerPc[1] = "gate" /\ bufExists /\ BufBytes >= THRESHOLD)]_vars
    /\ [](callerPc[1] \in {"fatal", "died", "timeout"} =>
            (1 \notin players /\ errors[1] = 0))
    /\ [][callerPc[1] \in {"fatal", "died", "timeout"} =>
            \/ callerPc'[1] = callerPc[1]
            \/ callerPc'[1] = "exit" /\ errors'[1] = 1 /\ players' = players]_vars
    /\ [][errors'[1] # errors[1] => callerPc[1] \in {"fatal", "died", "timeout"}]_vars
    /\ [](callerPc[1] \in {"exit", "exited"} =>
            \/ 1 \in players /\ errors[1] = 0
            \/ 1 \notin players /\ errors[1] = 1)

\* C16 witness: the worker died in the wait loop, the run was reported once
\* and has ended without a player
C16_Witness ==
    /\ callerPc[1] = "exited"
    /\ thread[1] = "crashed"
    /\ errors[1] = 1
    /\ players = {}

\* C17: no iteration of the wait loop reads the size of the buffer while it
\* holds bytes of a segment whose append has not been completed.
C17_GateSeesWholeAppends ==
    [][(callerPc[1] = "gate" /\ CallerSteps(1)) => ~PartialAppend(1)]_vars

\* C18: within one run no progress update shows a lower percentage than the
\* one before it.
C18_ProgressNeverDrops == [][percent'[1] >= percent[1]]_vars

====
